---- MODULE Spec2Model ----
(***************************************************************************)
(* Model of the IELTS speaking scorer (app.py, gemini_analyzer.py,         *)
(* speech_analyzer.py, models.py).                                         *)
(*                                                                         *)
(* Numbers.  Band scores are Python floats; the model keeps them as exact  *)
(* integers in a fixed unit: persisted scores are in tenths of a band      *)
(* (6.0 is 60), the value round(x, 1) produces.  average_score is a        *)
(* quotient and is kept as a fraction in lowest terms.                     *)
(***************************************************************************)
EXTENDS Integers, Sequences, FiniteSets, TLC

VARIABLES
    progress,   \* table user_progress: user_id -> <<row>>, <<>> when there is none
    session,    \* per caller: <<the UserProgress object held by its db.session>>
    pc,         \* per caller: position in the record operation
    call,       \* per caller: arguments (user_id, score) of the running call
    finished,   \* history: per user, the scores of the calls that returned, in commit order
    failed,     \* history: per user, the scores of the calls that ended in rollback
    overlapped, \* history: per user, whether two of its calls ever overlapped
    arg,        \* a pure function under study: the input handed to it
    ret,        \* a pure function under study: <<what it returned>>, None before it ran
    req,        \* per worker: the submit_response request it is handling
    db          \* the committed tables user_response and user_result, and the
                \* number of requests received so far

recVars == <<progress, session, pc, call, finished, failed, overlapped>>
funVars == <<arg, ret>>
appVars == <<req, db>>
vars == <<recVars, funVars, appVars>>

\* Python's None, for a value that is otherwise a record: the empty sequence;
\* a present value v is <<v>>
None == <<>>

----------------------------------------------------------------------------
(* Bounds *)
NCallers == 2
MaxCalls == 4

Callers == 1..NCallers
Users == {"u1", "u2"}
\* overall_score values handed to update_user_progress, in tenths of a band
Scores == {60, 80}

----------------------------------------------------------------------------
(* Arithmetic helpers *)

RECURSIVE GCD(_, _)
GCD(a, b) == IF b = 0 THEN a ELSE GCD(b, a % b)

RECURSIVE SumSeq(_)
SumSeq(s) == IF s = <<>> THEN 0 ELSE Head(s) + SumSeq(Tail(s))

\* Python's true division total_score / test_count, as a fraction in lowest terms
TrueDiv(n, d) ==
    LET g == GCD(n, d)
    IN  IF g = 0 THEN [num |-> 0, den |-> 1] ELSE [num |-> n \div g, den |-> d \div g]

----------------------------------------------------------------------------
(* ProgressTracker: update_user_progress and the commit that follows it *)

Fields == {"test_count", "total_score", "average_score", "latest_score"}

\* a float that holds a score, as a fraction
FromScore(score) == [num |-> score, den |-> 1]

\* update_user_progress with line 247 run before line 245: the average is taken
\* over the old test_count
update_user_progress_stale_count(found, score) ==
    IF found # None
    THEN LET row   == found[1]
             total == row.total_score + score
         IN  [isNew |-> FALSE,
              orig  |-> row,
              cur   |-> [test_count    |-> row.test_count + 1,
                         total_score   |-> total,
                         average_score |-> TrueDiv(total, row.test_count),
                         latest_score  |-> score]]
    ELSE LET new == [test_count    |-> 1,
                     total_score   |-> score,
                     average_score |-> FromScore(score),
                     latest_score  |-> score]
         IN  [isNew |-> TRUE, orig |-> new, cur |-> new]

\* app.py 232-258.  found is what the query of line 241 returns (None when the
\* identity has no record).  The result is the object the session holds after
\* the call: isNew for the added object of lines 251-258, otherwise the loaded
\* values (orig) and the values after lines 245-248 (cur).
update_user_progress(found, score) ==
    IF found # None
    THEN LET row   == found[1]
             count == row.test_count + 1
             total == row.total_score + score
         IN  [isNew |-> FALSE,
              orig  |-> row,
              cur   |-> [test_count    |-> count,
                         total_score   |-> total,
                         average_score |-> TrueDiv(total, count),
                         latest_score  |-> score]]
    ELSE LET new == [test_count    |-> 1,
                     total_score   |-> score,
                     average_score |-> FromScore(score),
                     latest_score  |-> score]
         IN  [isNew |-> TRUE, orig |-> new, cur |-> new]

\* The flush of db.session.commit() (app.py 119) for the UserProgress object.
\* A new object is INSERTed and fails on the unique user_id (models.py 54) when
\* a row for the identity was committed meanwhile: the result is then None.
\* A loaded object is written with an UPDATE of the attributes whose value
\* differs from the loaded one; the other columns keep what the table holds.
FlushProgress(stored, obj) ==
    IF obj.isNew
    THEN IF stored # None THEN None ELSE <<obj.cur>>
    ELSE <<[f \in Fields |->
              IF obj.cur[f] # obj.orig[f] THEN obj.cur[f] ELSE stored[1][f]]>>

NoCall == [user |-> "-", score |-> 0]

InFlight(u) == {c \in Callers : pc[c] = "commit" /\ call[c].user = u}

RECURSIVE CallsOf(_)
CallsOf(S) ==
    IF S = {} THEN 0
    ELSE LET u == CHOOSE v \in S : TRUE
         IN  Len(finished[u]) + Len(failed[u]) + Cardinality(InFlight(u))
               + CallsOf(S \ {u})

CallsMade == CallsOf(Users)

RecInit ==
    /\ progress = [u \in Users |-> None]
    /\ session = [c \in Callers |-> None]
    /\ pc = [c \in Callers |-> "idle"]
    /\ call = [c \in Callers |-> NoCall]
    /\ finished = [u \in Users |-> <<>>]
    /\ failed = [u \in Users |-> <<>>]
    /\ overlapped = [u \in Users |-> FALSE]
    /\ arg = None /\ ret = None
    /\ req = None /\ db = None

\* app.py 117: update_user_progress(user_id, overall_score) on the caller's session
Record(c, u, s) ==
    /\ pc[c] = "idle"
    /\ CallsMade < MaxCalls
    /\ session' = [session EXCEPT ![c] = <<update_user_progress(progress[u], s)>>]
    /\ call' = [call EXCEPT ![c] = [user |-> u, score |-> s]]
    /\ overlapped' = [overlapped EXCEPT ![u] = @ \/ InFlight(u) # {}]
    /\ pc' = [pc EXCEPT ![c] = "commit"]
    /\ UNCHANGED <<progress, finished, failed, funVars, appVars>>

\* app.py 119: db.session.commit()
Commit(c) ==
    /\ pc[c] = "commit"
    /\ LET u == call[c].user
           written == FlushProgress(progress[u], session[c][1])
       IN  /\ written # None
           /\ progress' = [progress EXCEPT ![u] = written]
           /\ finished' = [finished EXCEPT ![u] = Append(@, call[c].score)]
    /\ session' = [session EXCEPT ![c] = None]
    /\ call' = [call EXCEPT ![c] = NoCall]
    /\ pc' = [pc EXCEPT ![c] = "idle"]
    /\ UNCHANGED <<failed, overlapped, funVars, appVars>>

\* app.py 128-130: the commit raised, db.session.rollback()
Rollback(c) ==
    /\ pc[c] = "commit"
    /\ LET u == call[c].user
       IN  /\ FlushProgress(progress[u], session[c][1]) = None
           /\ failed' = [failed EXCEPT ![u] = Append(@, call[c].score)]
    /\ session' = [session EXCEPT ![c] = None]
    /\ call' = [call EXCEPT ![c] = NoCall]
    /\ pc' = [pc EXCEPT ![c] = "idle"]
    /\ UNCHANGED <<progress, finished, overlapped, funVars, appVars>>

RecNext ==
    \/ \E c \in Callers, u \in Users, s \in Scores : Record(c, u, s)
    \/ \E c \in Callers : Commit(c)
    \/ \E c \in Callers : Rollback(c)

SpecRecord == RecInit /\ [][RecNext]_vars

Quiet(u) == InFlight(u) = {}

\* C2: after n record calls for an identity that never overlapped, the record is
\* {n, s1+...+sn, (s1+...+sn)/n, sn}; 6.0 then 8.0 gives {2, 14.0, 7.0, 8.0}.
C2_SequentialRecord ==
    \A u \in Users :
        (Quiet(u) /\ ~overlapped[u] /\ finished[u] # <<>>) =>
            LET s == finished[u]
                n == Len(s)
            IN  /\ failed[u] = <<>>
                /\ progress[u] # None
                /\ progress[u][1].test_count = n
                /\ progress[u][1].total_score = SumSeq(s)
                /\ progress[u][1].average_score.num * n
                     = SumSeq(s) * progress[u][1].average_score.den
                /\ progress[u][1].latest_score = s[n]
                /\ (s = <<60, 80>> =>
                      progress[u][1] = [test_count |-> 2, total_score |-> 140,
                                        average_score |-> [num |-> 70, den |-> 1],
                                        latest_score |-> 80])

C2_Witness ==
    /\ Quiet("u1") /\ ~overlapped["u1"]
    /\ finished["u1"] = <<60, 80>>
    /\ progress["u1"] # None
    /\ progress["u1"][1].test_count = 2

\* C1: once every record call for an identity has returned, test_count is the
\* number of calls that committed and total_score is the sum of their scores
\* (no update is lost), whatever the interleaving.
C1_NoLostUpdate ==
    \A u \in Users :
        (Quiet(u) /\ finished[u] # <<>>) =>
            /\ progress[u] # None
            /\ progress[u][1].test_count = Len(finished[u])
            /\ progress[u][1].total_score = SumSeq(finished[u])

\* C3: every stored progress record with test_count > 0 has
\* average_score = total_score / test_count.
C3_AverageInvariant ==
    \A u \in Users :
        (progress[u] # None /\ progress[u][1].test_count > 0) =>
            progress[u][1].average_score
                = TrueDiv(progress[u][1].total_score, progress[u][1].test_count)

\* C11: no step decreases the committed test_count of an identity or removes
\* its committed progress record, whether the step is a call, a commit or a
\* rollback.
C11_MonotonicCount ==
    [][\A u \in Users :
          progress[u] # None =>
              /\ progress'[u] # None
              /\ progress'[u][1].test_count >= progress[u][1].test_count]_vars

----------------------------------------------------------------------------
(* Exact arithmetic for the float formulas: a value is a fraction num/den in  *)
(* lowest terms with den > 0.  den = 0 marks the result of a division by      *)
(* zero (Python raises ZeroDivisionError) and is kept by every operation.     *)

Undefined == [num |-> 0, den |-> 0]
Defined(x) == x.den # 0

Abs(n) == IF n < 0 THEN -n ELSE n

Frac(n, d) ==
    IF d = 0 THEN Undefined
    ELSE LET g == GCD(Abs(n), Abs(d))
             s == IF d < 0 THEN -1 ELSE 1
         IN  [num |-> s * (n \div g), den |-> s * (d \div g)]

RAdd(a, b) ==
    IF Defined(a) /\ Defined(b)
    THEN Frac(a.num * b.den + b.num * a.den, a.den * b.den) ELSE Undefined
RSub(a, b) ==
    IF Defined(a) /\ Defined(b)
    THEN Frac(a.num * b.den - b.num * a.den, a.den * b.den) ELSE Undefined
RMul(a, b) ==
    IF Defined(a) /\ Defined(b) THEN Frac(a.num * b.num, a.den * b.den) ELSE Undefined
\* a / b
RDiv(a, b) ==
    IF Defined(a) /\ Defined(b) THEN Frac(a.num * b.den, a.den * b.num) ELSE Undefined
RLe(a, b) == a.num * b.den <= b.num * a.den
RLt(a, b) == a.num * b.den < b.num * a.den
\* Python's max(a, b) and min(a, b)
RMax(a, b) == IF ~Defined(a) \/ ~Defined(b) THEN Undefined ELSE IF RLt(a, b) THEN b ELSE a
RMin(a, b) == IF ~Defined(a) \/ ~Defined(b) THEN Undefined ELSE IF RLt(b, a) THEN b ELSE a
IntMax(a, b) == IF a < b THEN b ELSE a

\* the pattern min(9, max(0, x)) of speech_analyzer.py 98-105, 148-154, 186
Clamp09(x) == RMin(Frac(9, 1), RMax(Frac(0, 1), x))

----------------------------------------------------------------------------
(* RuleBasedScorer: speech_analyzer.py.  The metrics are what the NLP         *)
(* toolkit reports for a transcript; readability, deviations and means are    *)
(* in tenths.                                                                 *)

\* speech_analyzer.py 78
estimated_speech_rate == 150

\* analyze_fluency with the filler ratio taken by floor division (//)
analyze_fluency_floor_ratio(m) ==
    LET sentence_length_variation ==
            IF m.sentence_count > 1 THEN Frac(m.stdev, 10) ELSE Frac(0, 1)
        speech_rate_score ==
            Clamp09(RAdd(Frac(45, 10), Frac(estimated_speech_rate - 120, 20)))
        filler_ratio == Frac(m.filler_count \div IntMax(1, m.word_count), 1)
        filler_score == Clamp09(RSub(Frac(9, 1), RMul(filler_ratio, Frac(100, 1))))
        complexity_score ==
            Clamp09(RAdd(Frac(45, 10),
                         RMul(RSub(Frac(m.fk_grade, 10), Frac(7, 1)), Frac(5, 10))))
        sentence_variation_score ==
            Clamp09(RAdd(Frac(45, 10), RMul(sentence_length_variation, Frac(5, 10))))
    IN  RAdd(RAdd(RMul(speech_rate_score, Frac(3, 10)),
                  RMul(filler_score, Frac(3, 10))),
             RAdd(RMul(complexity_score, Frac(2, 10)),
                  RMul(sentence_variation_score, Frac(2, 10))))

\* speech_analyzer.py 62-115.  m.word_count, m.sentence_count: lines 73-74;
\* m.filler_count: line 82; m.fk_grade: line 85 (tenths); m.stdev: np.std of
\* the sentence lengths, line 92 (tenths).
analyze_fluency(m) ==
    LET sentence_length_variation ==
            IF m.sentence_count > 1 THEN Frac(m.stdev, 10) ELSE Frac(0, 1)
        speech_rate_score ==
            Clamp09(RAdd(Frac(45, 10), Frac(estimated_speech_rate - 120, 20)))
        filler_ratio == Frac(m.filler_count, IntMax(1, m.word_count))
        filler_score == Clamp09(RSub(Frac(9, 1), RMul(filler_ratio, Frac(100, 1))))
        complexity_score ==
            Clamp09(RAdd(Frac(45, 10),
                         RMul(RSub(Frac(m.fk_grade, 10), Frac(7, 1)), Frac(5, 10))))
        sentence_variation_score ==
            Clamp09(RAdd(Frac(45, 10), RMul(sentence_length_variation, Frac(5, 10))))
    IN  RAdd(RAdd(RMul(speech_rate_score, Frac(3, 10)),
                  RMul(filler_score, Frac(3, 10))),
             RAdd(RMul(complexity_score, Frac(2, 10)),
                  RMul(sentence_variation_score, Frac(2, 10))))

\* speech_analyzer.py 117-164.  m.word_count: len(all_words); m.unique: len of
\* the set of lower-cased words; m.len_sum, m.syl_sum: the sums np.mean
\* divides by the word count; m.rank_sum: the sum of the tokens' ranks.
analyze_vocabulary(m) ==
    LET lexical_diversity ==
            IF m.word_count > 0 THEN Frac(m.unique, m.word_count) ELSE Frac(0, 1)
        avg_word_length ==
            IF m.word_count > 0 THEN Frac(m.len_sum, m.word_count) ELSE Frac(0, 1)
        avg_syllables ==
            IF m.word_count > 0 THEN Frac(m.syl_sum, m.word_count) ELSE Frac(0, 1)
        avg_word_rank ==
            IF m.word_count > 0 THEN Frac(m.rank_sum, m.word_count) ELSE Frac(0, 1)
        diversity_score == Clamp09(RMul(lexical_diversity, Frac(15, 1)))
        length_score ==
            Clamp09(RAdd(Frac(45, 10),
                         RMul(RSub(avg_word_length, Frac(45, 10)), Frac(15, 10))))
        syllable_score ==
            Clamp09(RAdd(Frac(45, 10),
                         RMul(RSub(avg_syllables, Frac(15, 10)), Frac(3, 1))))
        rarity_score ==
            Clamp09(RSub(Frac(45, 10), RDiv(avg_word_rank, Frac(10000, 1))))
    IN  RAdd(RAdd(RMul(diversity_score, Frac(4, 10)),
                  RMul(length_score, Frac(2, 10))),
             RAdd(RMul(syllable_score, Frac(2, 10)),
                  RMul(rarity_score, Frac(2, 10))))

\* analyze_grammar without the max(1, word_count) of line 182
analyze_grammar_unguarded(m) ==
    LET error_density == RMul(Frac(m.error_count, m.split_count), Frac(100, 1))
    IN  Clamp09(RSub(Frac(9, 1), error_density))

\* speech_analyzer.py 166-188.  m.error_count: len(matches), line 178;
\* m.split_count: len(transcript.split()), line 181.
analyze_grammar(m) ==
    LET error_density ==
            RMul(Frac(m.error_count, IntMax(1, m.split_count)), Frac(100, 1))
    IN  Clamp09(RSub(Frac(9, 1), error_density))

\* the scorers under study, over bounded metrics
MaxWords == 3
MaxErrors == 50
MaxRank == 2000000
\* Flesch-Kincaid grades in tenths, below, at and above the clamp's range
Grades == {-156, -35, 0, 70, 160, 300}
Deviations == {0, 15, 120}

FluencyInputs ==
    [fn : {"fluency"}, word_count : (0..MaxWords) \cup {20, 200}, sentence_count : 0..2,
     filler_count : 0..(MaxWords + 1), fk_grade : Grades, stdev : Deviations]

VocabularyInputs ==
    {[fn |-> "vocabulary", word_count |-> w, unique |-> u,
      len_sum |-> w * l, syl_sum |-> w * s, rank_sum |-> w * k] :
        w \in 0..MaxWords, u \in 0..MaxWords, l \in {1, 5, 12}, s \in {1, 2, 5},
        k \in {0, 5000, MaxRank}}

GrammarInputs ==
    [fn : {"grammar"}, error_count : {0, 1, MaxErrors}, split_count : 0..MaxWords]

ScoreInit ==
    /\ arg \in FluencyInputs \cup VocabularyInputs \cup GrammarInputs
    /\ arg.fn = "vocabulary" =>
         (arg.unique <= arg.word_count /\ (arg.word_count > 0 => arg.unique > 0))
    /\ ret = None
    /\ progress = None /\ session = None /\ pc = None /\ call = None
    /\ finished = None /\ failed = None /\ overlapped = None
    /\ req = None /\ db = None

\* speech_analyzer.py 40
Fluency ==
    /\ arg.fn = "fluency" /\ ret = None
    /\ ret' = <<analyze_fluency(arg)>>
    /\ UNCHANGED <<arg, recVars, appVars>>

\* speech_analyzer.py 43
Vocabulary ==
    /\ arg.fn = "vocabulary" /\ ret = None
    /\ ret' = <<analyze_vocabulary(arg)>>
    /\ UNCHANGED <<arg, recVars, appVars>>

\* speech_analyzer.py 46
Grammar ==
    /\ arg.fn = "grammar" /\ ret = None
    /\ ret' = <<analyze_grammar(arg)>>
    /\ UNCHANGED <<arg, recVars, appVars>>

ScoreNext == Fluency \/ Vocabulary \/ Grammar

SpecScore == ScoreInit /\ [][ScoreNext]_vars

\* C6: every sub-score analyze_fluency, analyze_vocabulary and analyze_grammar
\* return is defined (no division by zero) and within [0,9], also for zero
\* words, zero sentences, more fillers than words, a negative readability
\* grade, a very large rarity rank or error count.
C6_SubScoreRange ==
    ret # None =>
        /\ Defined(ret[1])
        /\ RLe(Frac(0, 1), ret[1])
        /\ RLe(ret[1], Frac(9, 1))

C6_Witness ==
    /\ ret # None
    /\ arg.fn = "fluency"
    /\ arg.word_count = 0 /\ arg.sentence_count = 0
    /\ arg.filler_count > arg.word_count
    /\ arg.fk_grade < 0
    /\ Defined(ret[1])

\* C15: a transcript with fillers gets a strictly lower fluency from
\* analyze_fluency than the transcript with the same metrics and no filler.
C15_FillersLowerFluency ==
    (ret # None /\ arg.fn = "fluency" /\ arg.filler_count > 0) =>
        /\ Defined(ret[1])
        /\ RLt(ret[1], analyze_fluency([arg EXCEPT !.filler_count = 0]))

\* one filler in 20 words: the filler score is neither 0 nor 9
C15_Witness ==
    /\ ret # None /\ arg.fn = "fluency"
    /\ arg.filler_count = 1 /\ arg.word_count = 20
    /\ RLt(ret[1], analyze_fluency([arg EXCEPT !.filler_count = 0]))
    /\ RLt(analyze_fluency([arg EXCEPT !.filler_count = MaxWords + 1]), ret[1])

----------------------------------------------------------------------------
(* ExternalJudgeAdapter: gemini_analyzer.py.                                  *)
(*                                                                            *)
(* A JSON value is [t, n, keys]: a number n in tenths of a band, a string, or *)
(* an object with the given keys (used for feedback).  A JSON document is     *)
(* [t, fields]: an object with its fields, or an array, number, string or     *)
(* null.  The judge's response text is a sequence of tokens: a "```json"      *)
(* fence, a "```" fence, whitespace, prose, or one JSON document.             *)

JNum(n) == [t |-> "num", n |-> n, keys |-> {}]
JStr == [t |-> "str", n |-> 0, keys |-> {}]
JDict(K) == [t |-> "dict", n |-> 0, keys |-> K]
\* the str json.dumps returns for a dict with the keys K
JsonStr(K) == [t |-> "json_str", n |-> 0, keys |-> K]

ScoreFields ==
    {"fluency_score", "vocabulary_score", "grammar_score", "coherence_score",
     "overall_score"}
FeedbackKeys == {"strengths", "weaknesses", "suggestions"}

\* gemini_analyzer.py 84-85
required_fields ==
    <<"fluency_score", "vocabulary_score", "grammar_score", "coherence_score",
      "overall_score", "feedback">>

NoFields == [f \in {} |-> JStr]
NoDoc == [t |-> "none", fields |-> NoFields]
Tok(k) == [k |-> k, v |-> NoDoc]
JTok(d) == [k |-> "json", v |-> d]
Fences == {"fence_json", "fence"}

\* str.find: the index of the first token at or after from whose kind is in
\* kinds; 0 when there is none (Python's -1)
RECURSIVE Find(_, _, _)
Find(text, kinds, from) ==
    IF from > Len(text) THEN 0
    ELSE IF text[from].k \in kinds THEN from
    ELSE Find(text, kinds, from + 1)

\* text[:-1]: the text without its last character.  A whitespace token is one
\* character; a JSON document that loses its last character is no JSON.
ChopLast(text) ==
    IF text = <<>> THEN <<>>
    ELSE LET n == Len(text)
         IN  IF text[n].k = "ws" THEN SubSeq(text, 1, n - 1)
             ELSE IF text[n].k = "json"
                  THEN Append(SubSeq(text, 1, n - 1), Tok("prose"))
                  ELSE text

\* str.strip
RECURSIVE Strip(_)
Strip(text) ==
    IF text = <<>> THEN <<>>
    ELSE IF Head(text).k = "ws" THEN Strip(Tail(text))
    ELSE IF text[Len(text)].k = "ws" THEN Strip(SubSeq(text, 1, Len(text) - 1))
    ELSE text

\* text[start:end].strip() with start the token after the opening fence and
\* end the result of find: gemini_analyzer.py 73-75 and 77-79
Between(text, open) ==
    LET close == Find(text, Fences, open + 1)
    IN  IF close = 0
        THEN Strip(ChopLast(SubSeq(text, open + 1, Len(text))))
        ELSE Strip(SubSeq(text, open + 1, close - 1))

\* gemini_analyzer.py 72-79
ExtractJson(text) ==
    IF Find(text, {"fence_json"}, 1) # 0
    THEN Between(text, Find(text, {"fence_json"}, 1))
    ELSE IF Find(text, Fences, 1) # 0
    THEN Between(text, Find(text, Fences, 1))
    ELSE text

\* json.loads, gemini_analyzer.py 81: <<the document>>, None when it raises
JsonLoads(text) ==
    LET s == Strip(text)
    IN  IF Len(s) = 1 /\ s[1].k = "json" THEN <<s[1].v>> ELSE None

\* gemini_analyzer.py 86-93: the loop over required_fields, from field i on
RECURSIVE FillMissing(_, _)
FillMissing(analysis, i) ==
    IF i > Len(required_fields) THEN analysis
    ELSE LET field == required_fields[i]
         IN  IF field \in DOMAIN analysis THEN FillMissing(analysis, i + 1)
             ELSE IF field = "coherence_score"
             THEN FillMissing(
                      analysis @@ (field :>
                          IF "fluency_score" \in DOMAIN analysis
                          THEN analysis["fluency_score"] ELSE JNum(60)),
                      i + 1)
             ELSE FillMissing(analysis @@ (field :> JNum(60)), i + 1)

\* gemini_analyzer.py 95-100
FixFeedback(analysis) ==
    IF "feedback" \notin DOMAIN analysis \/ analysis["feedback"].t # "dict"
    THEN [f \in DOMAIN analysis \cup {"feedback"} |->
            IF f = "feedback" THEN JDict(FeedbackKeys) ELSE analysis[f]]
    ELSE analysis

\* gemini_analyzer.py 107-118 and 123-134
DefaultAnalysis ==
    [f \in ScoreFields \cup {"feedback"} |->
        IF f = "feedback" THEN JsonStr(FeedbackKeys) ELSE JNum(60)]

\* gemini_analyzer.py 12-134.  judge.kind: "call_raises" when generate_content
\* raises (line 64), "text_raises" when response.text does (line 69), "text"
\* when the judge answered judge.text.  On anything but a JSON object the loop
\* of lines 86-93 or the test of line 95 raises and lines 104-118 answer.
analyze_with_gemini(judge) ==
    IF judge.kind = "call_raises" THEN DefaultAnalysis
    ELSE IF judge.kind = "text_raises" THEN DefaultAnalysis
    ELSE LET loaded == JsonLoads(ExtractJson(judge.text))
         IN  IF loaded = None THEN DefaultAnalysis
             ELSE IF loaded[1].t # "object" THEN DefaultAnalysis
             ELSE FixFeedback(FillMissing(loaded[1].fields, 1))

\* the adapter under study, over bounded judge outcomes
\* score values the judge may send: in range, out of range, not a number
ScoreValues == {JNum(75), JNum(150), JStr}
\* feedback values the judge may send: complete, incomplete, not an object
FeedbackValues == {JDict(FeedbackKeys), JDict({"strengths"}), JStr}

ObjectDocs ==
    {[t |-> "object", fields |-> f] :
        f \in UNION {{g \in [P -> ScoreValues \cup FeedbackValues] :
                        /\ \A k \in P \cap ScoreFields : g[k] \in ScoreValues
                        /\ "feedback" \in P => g["feedback"] \in FeedbackValues} :
                     P \in SUBSET (ScoreFields \cup {"feedback"})}}

OtherDocs == {[t |-> k, fields |-> NoFields] : k \in {"array", "number", "string", "null"}}

Plain(d) == <<JTok(d)>>
JsonFenced(d) == <<Tok("fence_json"), Tok("ws"), JTok(d), Tok("ws"), Tok("fence")>>
BareFenced(d) == <<Tok("fence"), Tok("ws"), JTok(d), Tok("ws"), Tok("fence")>>
InProse(d) == <<Tok("prose"), Tok("ws"), JTok(d), Tok("ws"), Tok("prose")>>
Unclosed(d) == <<Tok("fence_json"), Tok("ws"), JTok(d)>>
FencedInProse(d) ==
    <<Tok("prose"), Tok("ws"), Tok("fence_json"), Tok("ws"), JTok(d), Tok("ws"),
      Tok("fence"), Tok("ws"), Tok("prose")>>

Texts ==
    {<<>>, <<Tok("prose")>>, <<Tok("ws")>>}
      \cup {Plain(d) : d \in ObjectDocs \cup OtherDocs}
      \cup {JsonFenced(d) : d \in ObjectDocs}
      \cup {BareFenced(d) : d \in ObjectDocs}
      \cup {InProse(d) : d \in ObjectDocs}
      \cup {Unclosed(d) : d \in ObjectDocs}
      \cup {FencedInProse(d) : d \in ObjectDocs}

JudgeOutcomes ==
    {[fn |-> "judge", kind |-> k, text |-> <<>>] : k \in {"call_raises", "text_raises"}}
      \cup {[fn |-> "judge", kind |-> "text", text |-> x] : x \in Texts}

JudgeInit ==
    /\ arg \in JudgeOutcomes
    /\ ret = None
    /\ progress = None /\ session = None /\ pc = None /\ call = None
    /\ finished = None /\ failed = None /\ overlapped = None
    /\ req = None /\ db = None

\* app.py 89: analyze_with_gemini(transcript, question_context)
Judge ==
    /\ ret = None
    /\ ret' = <<analyze_with_gemini(arg)>>
    /\ UNCHANGED <<arg, recVars, appVars>>

JudgeNext == Judge

SpecJudge == JudgeInit /\ [][JudgeNext]_vars

FullyPopulated(a) ==
    /\ ScoreFields \cup {"feedback"} \subseteq DOMAIN a
    /\ a["feedback"].t \in {"dict", "json_str"}
    /\ FeedbackKeys \subseteq a["feedback"].keys

\* C4: analyze_with_gemini returns, for every judge outcome, a result that has
\* the five scores and a feedback with strengths, weaknesses and suggestions.
C4_FullyPopulated == ret # None => FullyPopulated(ret[1])

InBand(v) == v.t = "num" /\ 0 <= v.n /\ v.n <= 90

\* C5: every score of the result of analyze_with_gemini is a number within
\* [0,9]; a score the judge's object lacks is 6.0, a missing coherence score
\* is the result's fluency score.
C5_ScoresInBand ==
    ret # None =>
        /\ \A f \in ScoreFields : InBand(ret[1][f])
        /\ (arg.kind = "text" /\ Len(arg.text) = 1 /\ arg.text[1].v.t = "object") =>
              LET sent == DOMAIN arg.text[1].v.fields
              IN  /\ \A f \in ScoreFields \ (sent \cup {"coherence_score"}) :
                        ret[1][f] = JNum(60)
                  /\ "coherence_score" \notin sent =>
                        ret[1]["coherence_score"] = ret[1]["fluency_score"]

\* the judge's text holds a JSON object and something around it: prose, or
\* an opening and a closing fence
Wrapped(text) ==
    /\ Len(text) > 1
    /\ \E i \in DOMAIN text : text[i].k = "json" /\ text[i].v.t = "object"
    /\ Cardinality({i \in DOMAIN text : text[i].k \in Fences}) \in {0, 2}

FirstObject(text) ==
    LET i == CHOOSE j \in DOMAIN text :
                 /\ text[j].k = "json" /\ text[j].v.t = "object"
                 /\ \A h \in 1..(j - 1) : ~(text[h].k = "json" /\ text[h].v.t = "object")
    IN  text[i].v

\* C14: when the judge's text holds a JSON object inside a ```json fence, a
\* ``` fence or prose, the scores analyze_with_gemini returns are those of that
\* object (with the defaults for the fields it lacks), not the fallback's.
C14_ExtractsWrappedJson ==
    (ret # None /\ arg.kind = "text" /\ Wrapped(arg.text)) =>
        LET sent == FillMissing(FirstObject(arg.text).fields, 1)
        IN  /\ ret[1]["feedback"].t # "json_str"
            /\ \A f \in ScoreFields : ret[1][f] = sent[f]

----------------------------------------------------------------------------
(* ScoreAggregator: analyze_speech's result and combine_analyses              *)

\* Python's round(x, 1), in tenths: the tenth nearest to the float.  Where the
\* exact value lies halfway between two tenths the float that stands for it
\* lies on either side, so either tenth is the result: up says which.
Round1(x, up) ==
    LET n  == x.num * 10
        fl == n \div x.den
        r2 == 2 * (n - fl * x.den)
    IN  IF r2 > x.den \/ (r2 = x.den /\ up) THEN fl + 1 ELSE fl

\* speech_analyzer.py 190-204
calculate_overall_score(fluency_score, vocabulary_score, grammar_score) ==
    RAdd(RMul(fluency_score, Frac(4, 10)),
         RAdd(RMul(vocabulary_score, Frac(3, 10)), RMul(grammar_score, Frac(3, 10))))

\* speech_analyzer.py 26-60: the scores it returns are rounded to tenths; the
\* feedback is the str generate_feedback returns (json.dumps, line 260)
analyze_speech(m, up) ==
    LET fluency_score == analyze_fluency(m)
        vocabulary_score == analyze_vocabulary(m)
        grammar_score == analyze_grammar(m)
        overall_score ==
            calculate_overall_score(fluency_score, vocabulary_score, grammar_score)
    IN  [fluency_score    |-> Round1(fluency_score, up),
         vocabulary_score |-> Round1(vocabulary_score, up),
         grammar_score    |-> Round1(grammar_score, up),
         overall_score    |-> Round1(overall_score, up),
         feedback         |-> JsonStr(FeedbackKeys)]

Tenths(n) == Frac(n, 10)

\* the values combine_analyses multiplies by a float: app.py 202-211
Blended == {"fluency_score", "vocabulary_score", "grammar_score", "coherence_score"}

\* what combine_analyses gives when it raises (a str or None times a float)
TypeError ==
    [error |-> "TypeError", fluency_score |-> 0, vocabulary_score |-> 0,
     grammar_score |-> 0, coherence_score |-> 0, overall_score |-> 0,
     feedback |-> JStr]

\* combine_analyses with the overall score taken with the weights of
\* calculate_overall_score (0.4, 0.3, 0.3) and without coherence
combine_analyses_nlp_weights(nlp_analysis, gemini_analysis, up) ==
    IF \E f \in Blended : gemini_analysis[f].t # "num" THEN TypeError
    ELSE
    LET fluency_nlp == Tenths(nlp_analysis.fluency_score)
        vocabulary_nlp == Tenths(nlp_analysis.vocabulary_score)
        grammar_nlp == Tenths(nlp_analysis.grammar_score)
        fluency_gemini == Tenths(gemini_analysis["fluency_score"].n)
        vocabulary_gemini == Tenths(gemini_analysis["vocabulary_score"].n)
        grammar_gemini == Tenths(gemini_analysis["grammar_score"].n)
        coherence_gemini == Tenths(gemini_analysis["coherence_score"].n)
        fluency_combined ==
            RAdd(RMul(fluency_nlp, Frac(4, 10)), RMul(fluency_gemini, Frac(6, 10)))
        vocabulary_combined ==
            RAdd(RMul(vocabulary_nlp, Frac(4, 10)), RMul(vocabulary_gemini, Frac(6, 10)))
        grammar_combined ==
            RAdd(RMul(grammar_nlp, Frac(4, 10)), RMul(grammar_gemini, Frac(6, 10)))
        overall_score ==
            calculate_overall_score(fluency_combined, vocabulary_combined,
                                    grammar_combined)
    IN  [error            |-> "",
         fluency_score    |-> Round1(fluency_combined, up),
         vocabulary_score |-> Round1(vocabulary_combined, up),
         grammar_score    |-> Round1(grammar_combined, up),
         coherence_score  |-> Round1(coherence_gemini, up),
         overall_score    |-> Round1(overall_score, up),
         feedback         |-> gemini_analysis["feedback"]]

\* app.py 180-230.  nlp_analysis holds tenths, gemini_analysis JSON values.
combine_analyses(nlp_analysis, gemini_analysis, up) ==
    IF \E f \in Blended : gemini_analysis[f].t # "num" THEN TypeError
    ELSE
    LET fluency_nlp == Tenths(nlp_analysis.fluency_score)
        vocabulary_nlp == Tenths(nlp_analysis.vocabulary_score)
        grammar_nlp == Tenths(nlp_analysis.grammar_score)
        fluency_gemini == Tenths(gemini_analysis["fluency_score"].n)
        vocabulary_gemini == Tenths(gemini_analysis["vocabulary_score"].n)
        grammar_gemini == Tenths(gemini_analysis["grammar_score"].n)
        coherence_gemini == Tenths(gemini_analysis["coherence_score"].n)
        fluency_combined ==
            RAdd(RMul(fluency_nlp, Frac(4, 10)), RMul(fluency_gemini, Frac(6, 10)))
        vocabulary_combined ==
            RAdd(RMul(vocabulary_nlp, Frac(4, 10)), RMul(vocabulary_gemini, Frac(6, 10)))
        grammar_combined ==
            RAdd(RMul(grammar_nlp, Frac(4, 10)), RMul(grammar_gemini, Frac(6, 10)))
        overall_score ==
            RAdd(RAdd(RMul(fluency_combined, Frac(3, 10)),
                      RMul(vocabulary_combined, Frac(25, 100))),
                 RAdd(RMul(grammar_combined, Frac(25, 100)),
                      RMul(coherence_gemini, Frac(2, 10))))
    IN  [error            |-> "",
         fluency_score    |-> Round1(fluency_combined, up),
         vocabulary_score |-> Round1(vocabulary_combined, up),
         grammar_score    |-> Round1(grammar_combined, up),
         coherence_score  |-> Round1(coherence_gemini, up),
         overall_score    |-> Round1(overall_score, up),
         feedback         |-> gemini_analysis["feedback"]]

\* the aggregator under study, over bounded sub-scores in tenths
NlpScores == {63, 73, 87, 90}
GeminiScores == {23, 44, 49, 74}

BlendInputs ==
    {[fn |-> "blend",
      nlp |-> [fluency_score |-> a[1], vocabulary_score |-> a[2],
               grammar_score |-> a[3],
               overall_score |-> Round1(calculate_overall_score(
                                     Tenths(a[1]), Tenths(a[2]), Tenths(a[3])), FALSE),
               feedback |-> JsonStr(FeedbackKeys)],
      gemini |-> [f \in ScoreFields \cup {"feedback"} |->
                    CASE f = "fluency_score" -> JNum(b[1])
                      [] f = "vocabulary_score" -> JNum(b[2])
                      [] f = "grammar_score" -> JNum(b[3])
                      [] f = "coherence_score" -> JNum(b[4])
                      [] f = "overall_score" -> JNum(60)
                      [] OTHER -> JDict(FeedbackKeys)]] :
        a \in NlpScores \X NlpScores \X NlpScores,
        b \in GeminiScores \X GeminiScores \X GeminiScores \X GeminiScores}

BlendInit ==
    /\ arg \in BlendInputs
    /\ ret = None
    /\ progress = None /\ session = None /\ pc = None /\ call = None
    /\ finished = None /\ failed = None /\ overlapped = None
    /\ req = None /\ db = None

\* app.py 92: combine_analyses(nlp_analysis, gemini_analysis)
Blend ==
    /\ ret = None
    /\ \E up \in BOOLEAN : ret' = <<combine_analyses(arg.nlp, arg.gemini, up)>>
    /\ UNCHANGED <<arg, recVars, appVars>>

BlendNext == Blend

SpecBlend == BlendInit /\ [][BlendNext]_vars

\* |a - b| < 1/10
Within1(a, b) == RLt(RSub(a, b), Frac(1, 10)) /\ RLt(RSub(b, a), Frac(1, 10))
\* |a - b| <= 1/20
WithinHalf(a, b) == RLe(RSub(a, b), Frac(1, 20)) /\ RLe(RSub(b, a), Frac(1, 20))

WeightedOverall(r) ==
    RAdd(RAdd(RMul(Tenths(r.fluency_score), Frac(3, 10)),
              RMul(Tenths(r.vocabulary_score), Frac(25, 100))),
         RAdd(RMul(Tenths(r.grammar_score), Frac(25, 100)),
              RMul(Tenths(r.coherence_score), Frac(2, 10))))

BlendOf(rule, judge) ==
    RAdd(RMul(Tenths(rule), Frac(4, 10)), RMul(Tenths(judge.n), Frac(6, 10)))

\* C7: the overall score combine_analyses returns is within one unit of the
\* last decimal place (0.1) of 0.3*fluency + 0.25*vocabulary + 0.25*grammar +
\* 0.2*coherence over the fields it returns; each of fluency, vocabulary and
\* grammar is 0.4*rule + 0.6*judge rounded to one decimal place, and coherence
\* is the judge's coherence.
C7_Blending ==
    ret # None =>
        LET r == ret[1]
        IN  /\ r.error = ""
            /\ Within1(Tenths(r.overall_score), WeightedOverall(r))
            /\ WithinHalf(Tenths(r.fluency_score),
                          BlendOf(arg.nlp.fluency_score, arg.gemini["fluency_score"]))
            /\ WithinHalf(Tenths(r.vocabulary_score),
                          BlendOf(arg.nlp.vocabulary_score, arg.gemini["vocabulary_score"]))
            /\ WithinHalf(Tenths(r.grammar_score),
                          BlendOf(arg.nlp.grammar_score, arg.gemini["grammar_score"]))
            /\ r.coherence_score = arg.gemini["coherence_score"].n

\* the returned overall differs from the weighted sum of the returned fields
\* by more than half a unit of the last place
C7_Witness ==
    /\ ret # None
    /\ ret[1].error = ""
    /\ ~WithinHalf(Tenths(ret[1].overall_score), WeightedOverall(ret[1]))

----------------------------------------------------------------------------
(* submit_response: app.py 43-135.  Each worker handles one request at a     *)
(* time with its own db.session.                                             *)

NWorkers == 1
MaxRequests == 2
Workers == 1..NWorkers

\* ids of the questions seed_database stored (app.py 274-312); "999" is none
StoredQuestions == {"1"}

\* request.files and request.form of a POST: "" is a missing field
Forms ==
    [audio : BOOLEAN, question_id : {"", "1", "999"}, question_text : {"", "text"},
     user_id : {"", "u1"}]

\* what the NLP toolkit reports for the transcripts: an empty one,
\* "Um, I think, uh, the city is nice." and one sentence of 20 words with one
\* filler and a Flesch-Kincaid grade of 5.3 (fluency 4.63)
Transcripts ==
    {[word_count |-> 0, sentence_count |-> 0, filler_count |-> 0, fk_grade |-> 0,
      stdev |-> 0, unique |-> 0, len_sum |-> 0, syl_sum |-> 0, rank_sum |-> 0,
      error_count |-> 0, split_count |-> 0],
     [word_count |-> 8, sentence_count |-> 1, filler_count |-> 2, fk_grade |-> 12,
      stdev |-> 0, unique |-> 8, len_sum |-> 24, syl_sum |-> 9, rank_sum |-> 4000,
      error_count |-> 0, split_count |-> 8],
     [word_count |-> 20, sentence_count |-> 1, filler_count |-> 1, fk_grade |-> 53,
      stdev |-> 0, unique |-> 18, len_sum |-> 80, syl_sum |-> 28, rank_sum |-> 20000,
      error_count |-> 0, split_count |-> 20]}

CompleteDoc(v) ==
    [t |-> "object",
     fields |-> [f \in ScoreFields \cup {"feedback"} |->
                    IF f = "feedback" THEN JDict(FeedbackKeys)
                    ELSE IF f = "fluency_score" THEN v ELSE JNum(70)]]

\* what the judge service does with one call: it raises, it answers with a
\* text, or it never answers
JudgeBehaviours ==
    {[fn |-> "judge", kind |-> k, text |-> <<>>] : k \in {"call_raises", "never"}}
      \cup {[fn |-> "judge", kind |-> "text", text |-> x] :
              x \in {<<>>, <<Tok("prose")>>,
                     Plain(CompleteDoc(JNum(75))),
                     JsonFenced(CompleteDoc(JNum(75))),
                     Plain(CompleteDoc(JNum(150))),
                     Plain(CompleteDoc(JStr)),
                     Plain([t |-> "object", fields |-> NoFields])}}

Idle ==
    [pc |-> "idle", form |-> None, tmp |-> FALSE, transcript |-> None,
     question_context |-> "", nlp |-> None, judge |-> None, gemini |-> None,
     combined |-> None, pending |-> <<>>, status |-> 0, cause |-> "", body |-> ""]

Init ==
    /\ req = [w \in Workers |-> Idle]
    /\ db = [user_response |-> <<>>, user_result |-> <<>>, served |-> 0]
    /\ progress = [u \in Users |-> None]
    /\ session = None /\ pc = None /\ call = None
    /\ finished = None /\ failed = None /\ overlapped = None
    /\ arg = None /\ ret = None

\* the response of a finished request: jsonify(...), status (app.py 55, 63, 81,
\* 122-126, 130); the finally of 131-135 removes the temporary file and the
\* except of 128-129 rolls the session back
Respond(r, status, cause, body) ==
    [r EXCEPT !.pc = "done", !.status = status, !.cause = cause, !.body = body,
              !.tmp = FALSE, !.pending = <<>>]

\* a POST /api/submit-response arrives at an idle worker
Receive(w, form) ==
    /\ req[w].pc \in {"idle", "done"}
    /\ db.served < MaxRequests
    /\ req' = [req EXCEPT ![w] = [Idle EXCEPT !.pc = "received", !.form = <<form>>]]
    /\ db' = [db EXCEPT !.served = @ + 1]
    /\ UNCHANGED <<recVars, funVars>>

\* Validate without the test of user_id in line 62
Validate_no_user_check(w) ==
    /\ req[w].pc = "received"
    /\ LET form == req[w].form[1]
       IN  req' = [req EXCEPT ![w] =
                IF ~form.audio
                THEN Respond(@, 400, "InputError", "No audio file provided")
                ELSE IF form.question_id = ""
                THEN Respond(@, 400, "InputError", "Missing question_id or user_id")
                ELSE [@ EXCEPT !.pc = "transcribe", !.tmp = TRUE]]
    /\ UNCHANGED <<db, recVars, funVars>>

\* app.py 54-68
Validate(w) ==
    /\ req[w].pc = "received"
    /\ LET form == req[w].form[1]
       IN  req' = [req EXCEPT ![w] =
                IF ~form.audio
                THEN Respond(@, 400, "InputError", "No audio file provided")
                ELSE IF form.question_id = "" \/ form.user_id = ""
                THEN Respond(@, 400, "InputError", "Missing question_id or user_id")
                ELSE [@ EXCEPT !.pc = "transcribe", !.tmp = TRUE]]
    /\ UNCHANGED <<db, recVars, funVars>>

\* app.py 72: transcribe_audio returns a transcript
Transcribe(w, transcript) ==
    /\ req[w].pc = "transcribe"
    /\ req' = [req EXCEPT ![w] = [@ EXCEPT !.pc = "question",
                                           !.transcript = <<transcript>>]]
    /\ UNCHANGED <<db, recVars, funVars>>

\* app.py 72, 128-130: transcribe_audio raises
TranscribeFails(w) ==
    /\ req[w].pc = "transcribe"
    /\ req' = [req EXCEPT ![w] = Respond(@, 500, "TranscriptionError", "str(e)")]
    /\ UNCHANGED <<db, recVars, funVars>>

\* app.py 75-83
GetQuestion(w) ==
    /\ req[w].pc = "question"
    /\ LET form == req[w].form[1]
       IN  req' = [req EXCEPT ![w] =
                IF form.question_id \notin StoredQuestions
                THEN IF form.question_text # ""
                     THEN [@ EXCEPT !.pc = "nlp",
                                    !.question_context = form.question_text]
                     ELSE Respond(@, 404, "InputError", "Question not found")
                ELSE [@ EXCEPT !.pc = "nlp", !.question_context = "stored text"]]
    /\ UNCHANGED <<db, recVars, funVars>>

\* app.py 86
AnalyzeSpeech(w) ==
    /\ req[w].pc = "nlp"
    /\ \E up \in BOOLEAN :
         req' = [req EXCEPT ![w] =
                    [@ EXCEPT !.pc = "gemini",
                              !.nlp = <<analyze_speech(req[w].transcript[1], up)>>]]
    /\ UNCHANGED <<db, recVars, funVars>>

\* app.py 89 and gemini_analyzer.py 64: model.generate_content(prompt) is
\* called, with no timeout argument
CallGemini(w, judge) ==
    /\ req[w].pc = "gemini"
    /\ req' = [req EXCEPT ![w] = [@ EXCEPT !.pc = "judge_wait", !.judge = <<judge>>]]
    /\ UNCHANGED <<db, recVars, funVars>>

\* gemini_analyzer.py 64-134: generate_content returned or raised, and
\* analyze_with_gemini returns
GeminiReturns(w) ==
    /\ req[w].pc = "judge_wait"
    /\ req[w].judge[1].kind # "never"
    /\ req' = [req EXCEPT ![w] =
                  [@ EXCEPT !.pc = "combine",
                            !.gemini = <<analyze_with_gemini(req[w].judge[1])>>]]
    /\ UNCHANGED <<db, recVars, funVars>>

\* app.py 92, and 128-130 when combine_analyses raises
Combine(w) ==
    /\ req[w].pc = "combine"
    /\ \E up \in BOOLEAN :
         LET combined == combine_analyses(req[w].nlp[1], req[w].gemini[1], up)
         IN  req' = [req EXCEPT ![w] =
                        IF combined.error # ""
                        THEN Respond(@, 500, combined.error, "str(e)")
                        ELSE [@ EXCEPT !.pc = "store", !.combined = <<combined>>]]
    /\ UNCHANGED <<db, recVars, funVars>>

\* Store with the UserResponse committed on its own right after it is added,
\* so that it has an id for the UserResult
Store_commit_response(w) ==
    /\ req[w].pc = "store"
    /\ LET form == req[w].form[1]
           user_response == [table |-> "user_response",
                             id |-> Len(db.user_response) + 1,
                             user_id |-> form.user_id, response_id |-> 0,
                             overall_score |-> 0]
           user_result == [table |-> "user_result", id |-> 0,
                           user_id |-> form.user_id,
                           response_id |-> user_response.id,
                           overall_score |-> req[w].combined[1].overall_score]
       IN  /\ req' = [req EXCEPT ![w] =
                        [@ EXCEPT !.pc = "progress", !.pending = <<user_result>>]]
           /\ db' = [db EXCEPT !.user_response = Append(@, user_response)]
    /\ UNCHANGED <<recVars, funVars>>

\* app.py 95-114: the UserResponse is added without an id (the session has not
\* flushed it), and the UserResult takes response_id=user_response.id, None;
\* 0 stands for None
Store(w) ==
    /\ req[w].pc = "store"
    /\ LET form == req[w].form[1]
           user_response == [table |-> "user_response", id |-> 0,
                             user_id |-> form.user_id, response_id |-> 0,
                             overall_score |-> 0]
           user_result == [table |-> "user_result", id |-> 0,
                           user_id |-> form.user_id,
                           response_id |-> user_response.id,
                           overall_score |-> req[w].combined[1].overall_score]
       IN  req' = [req EXCEPT ![w] =
                      [@ EXCEPT !.pc = "progress",
                                !.pending = <<user_response, user_result>>]]
    /\ UNCHANGED <<db, recVars, funVars>>

\* the INSERTs of a flush, in the order the objects were added: a row gets the
\* next id of its table; a user_result whose response_id is None violates
\* nullable=False (models.py 36) and the flush raises IntegrityError: None
RECURSIVE Flush(_, _)
Flush(tables, pending) ==
    IF pending = <<>> THEN <<tables>>
    ELSE LET o == Head(pending)
         IN  IF o.table = "user_result" /\ o.response_id = 0 THEN None
             ELSE Flush([tables EXCEPT ![o.table] =
                            Append(@, [o EXCEPT !.id = Len(tables[o.table]) + 1])],
                        Tail(pending))

\* app.py 117 and 241: the query of update_user_progress first flushes the
\* session (autoflush).  When the flush raises, 128-130 roll back and answer
\* 500.  The flush raises in every run (see Store), so lines 243-258 and the
\* commit of line 119 are never reached from here; SpecRecord has them.
UpdateProgress(w) ==
    /\ req[w].pc = "progress"
    /\ LET flushed == Flush(db, req[w].pending)
       IN  req' = [req EXCEPT ![w] =
                      IF flushed = None
                      THEN Respond(@, 500, "IntegrityError", "str(e)")
                      ELSE [@ EXCEPT !.pc = "commit"]]
    /\ UNCHANGED <<db, recVars, funVars>>

Next ==
    \/ \E w \in Workers, form \in Forms : Receive(w, form)
    \/ \E w \in Workers : Validate(w)
    \/ \E w \in Workers, transcript \in Transcripts : Transcribe(w, transcript)
    \/ \E w \in Workers : TranscribeFails(w)
    \/ \E w \in Workers : GetQuestion(w)
    \/ \E w \in Workers : AnalyzeSpeech(w)
    \/ \E w \in Workers, judge \in JudgeBehaviours : CallGemini(w, judge)
    \/ \E w \in Workers : GeminiReturns(w)
    \/ \E w \in Workers : Combine(w)
    \/ \E w \in Workers : Store(w)
    \/ \E w \in Workers : UpdateProgress(w)

Spec == Init /\ [][Next]_vars

Done(w) == req[w].pc = "done"

\* C8: a finished submission either returned 200 with a complete result, or
\* failed as an InputError, a transcription failure or a persistence failure:
\* nothing the judge does or returns makes a valid submission fail.
C8_ValidSubmissionCompletes ==
    \A w \in Workers :
        Done(w) =>
            \/ req[w].status = 200 /\ req[w].combined # None
            \/ req[w].cause \in {"InputError", "TranscriptionError", "IntegrityError"}

\* the inputs the claim calls an InputError
InputError(form) ==
    \/ ~form.audio
    \/ form.question_id = "" \/ form.user_id = ""
    \/ form.question_id \notin StoredQuestions /\ form.question_text = ""

Untouched(w) ==
    /\ req[w].nlp = None /\ req[w].gemini = None /\ req[w].combined = None
    /\ req[w].pending = <<>>
    /\ db.user_response = <<>> /\ db.user_result = <<>>
    /\ \A u \in Users : progress[u] = None

\* C9: a submission answered 400 or 404 was never scored and stored nothing,
\* and a submission without audio, question_id or user_id, or whose question
\* is neither stored nor given as text, is never scored and stores nothing.
C9_InputErrorLeavesNoState ==
    \A w \in Workers :
        /\ (Done(w) /\ req[w].status \in {400, 404}) =>
              (Untouched(w) /\ req[w].cause = "InputError" /\ ~req[w].tmp)
        /\ (req[w].form # None /\ InputError(req[w].form[1])) => Untouched(w)

C9_Witness ==
    \E w \in Workers :
        /\ Done(w) /\ req[w].status = 404
        /\ req[w].form[1].audio /\ req[w].form[1].user_id = "u1"
        /\ req[w].transcript # None
        /\ Untouched(w)

\* C10: a request that waits for the judge can always go on: the wait ends
\* with the judge's answer or, when it never answers, with a timeout that
\* makes analyze_with_gemini return the fallback.
C10_JudgeWaitBounded ==
    \A w \in Workers : req[w].pc = "judge_wait" => ENABLED GeminiReturns(w)

CountOf(table, u) == Cardinality({i \in DOMAIN table : table[i].user_id = u})

TestCount(u) == IF progress[u] = None THEN 0 ELSE progress[u][1].test_count

C17_ResultJoinsResponse ==
    /\ \A w \in Workers :
          \A i \in DOMAIN req[w].pending :
              req[w].pending[i].table = "user_result" =>
                  req[w].pending[i].response_id # 0
    /\ \A i \in DOMAIN db.user_result :
          /\ db.user_result[i].response_id # 0
          /\ \E j \in DOMAIN db.user_response :
                /\ db.user_response[j].id = db.user_result[i].response_id
                /\ db.user_response[j].user_id = db.user_result[i].user_id

\* 0.4*rule + 0.6*judge over the sub-score the scorer computed, not rounded
FullPrecisionBlend(rule, judge) ==
    RAdd(RMul(rule, Frac(4, 10)), RMul(Tenths(judge.n), Frac(6, 10)))

\* C13: the fluency, vocabulary and grammar of a combined result are the
\* blends of the full-precision rule-based sub-scores, rounded once.
C13_RoundedOnlyAtOutput ==
    \A w \in Workers :
        req[w].combined # None =>
            LET m == req[w].transcript[1]
                g == req[w].gemini[1]
                c == req[w].combined[1]
            IN  /\ \E up \in BOOLEAN :
                      c.fluency_score =
                          Round1(FullPrecisionBlend(analyze_fluency(m),
                                                    g["fluency_score"]), up)
                /\ \E up \in BOOLEAN :
                      c.vocabulary_score =
                          Round1(FullPrecisionBlend(analyze_vocabulary(m),
                                                    g["vocabulary_score"]), up)
                /\ \E up \in BOOLEAN :
                      c.grammar_score =
                          Round1(FullPrecisionBlend(analyze_grammar(m),
                                                    g["grammar_score"]), up)

----------------------------------------------------------------------------
(* get_user_progress: app.py 137-178, over the committed tables.  A table is *)
(* the sequence of its rows in the order they were committed.  created_at is *)
(* the value datetime.utcnow returned when the row's INSERT was built        *)
(* (models.py 43), which is during the flush, before the commit.             *)

\* app.py 147: limit(10)
HistoryLimit == 10
MaxResults == 12

\* ORDER BY created_at DESC.  The order of rows with equal created_at is left
\* to the database: by ascending id when asc, by descending id otherwise.
RECURSIVE OrderByCreatedAtDesc(_, _)
OrderByCreatedAtDesc(rows, asc) ==
    IF rows = {} THEN <<>>
    ELSE LET top == {r \in rows : \A q \in rows : q.created_at <= r.created_at}
             first == CHOOSE r \in top :
                         \A q \in top : IF asc THEN r.id <= q.id ELSE r.id >= q.id
         IN  <<first>> \o OrderByCreatedAtDesc(rows \ {first}, asc)

\* ORDER BY created_at, ascending (app.py 144)
RECURSIVE OrderByCreatedAt(_, _)
OrderByCreatedAt(rows, asc) ==
    IF rows = {} THEN <<>>
    ELSE LET low == {r \in rows : \A q \in rows : q.created_at >= r.created_at}
             first == CHOOSE r \in low :
                         \A q \in low : IF asc THEN r.id <= q.id ELSE r.id >= q.id
         IN  <<first>> \o OrderByCreatedAt(rows \ {first}, asc)

Limit(s, n) == SubSeq(s, 1, IF Len(s) < n THEN Len(s) ELSE n)

RowsOf(table, user_id) ==
    {table[i] : i \in {j \in DOMAIN table : table[j].user_id = user_id}}

\* Model.query.get(id): <<the row>>, None when there is none
Get(table, id) ==
    IF \E i \in DOMAIN table : table[i].id = id
    THEN <<table[CHOOSE i \in DOMAIN table : table[i].id = id]>>
    ELSE None

\* app.py 150-169 for one result; response.question_id raises AttributeError
\* when the response is None
ResultJson(t, result) ==
    LET response == Get(t.user_response, result.response_id)
    IN  IF response = None THEN [error |-> "AttributeError"]
        ELSE [error |-> "",
              id |-> result.id,
              date |-> result.created_at,
              question |-> IF response[1].question_id \in t.question
                           THEN response[1].question_id ELSE "None",
              transcript |-> response[1].transcript,
              overall_score |-> result.overall_score]

\* get_user_progress with the results taken oldest first (order_by without
\* desc, as the query of line 144 has it)
get_user_progress_oldest_first(user_id, t, asc) ==
    LET progress_rows == OrderByCreatedAt(RowsOf(t.user_progress, user_id), asc)
        results == Limit(OrderByCreatedAt(RowsOf(t.user_result, user_id), asc),
                         HistoryLimit)
        results_json == [i \in DOMAIN results |-> ResultJson(t, results[i])]
    IN  IF \E i \in DOMAIN results_json : results_json[i].error # ""
        THEN [error |-> "AttributeError", dates |-> <<>>, scores |-> <<>>,
              recent_results |-> <<>>]
        ELSE [error |-> "",
              dates |-> [i \in DOMAIN progress_rows |-> progress_rows[i].created_at],
              scores |-> [i \in DOMAIN progress_rows |-> progress_rows[i].average_score],
              recent_results |-> results_json]

\* app.py 137-178
get_user_progress(user_id, t, asc) ==
    LET progress_rows == OrderByCreatedAt(RowsOf(t.user_progress, user_id), asc)
        results == Limit(OrderByCreatedAtDesc(RowsOf(t.user_result, user_id), asc),
                         HistoryLimit)
        results_json == [i \in DOMAIN results |-> ResultJson(t, results[i])]
    IN  IF \E i \in DOMAIN results_json : results_json[i].error # ""
        THEN [error |-> "AttributeError", dates |-> <<>>, scores |-> <<>>,
              recent_results |-> <<>>]
        ELSE [error |-> "",
              dates |-> [i \in DOMAIN progress_rows |-> progress_rows[i].created_at],
              scores |-> [i \in DOMAIN progress_rows |-> progress_rows[i].average_score],
              recent_results |-> results_json]

\* The committed tables after n submissions.  For k > 0 the k-th and (k+1)-th
\* committed submissions were flushed in the other order: they overlapped
\* between the flush of line 117 and the commit of line 119.  ids are given at
\* the INSERT, so they follow the order of the flushes, as created_at does.
Inserted(i, k) ==
    IF k > 0 /\ i = k THEN k + 1
    ELSE IF k > 0 /\ i = k + 1 THEN k
    ELSE i

CreatedAt(i, k) == 10 * Inserted(i, k)

UserOf(i, n, pattern) ==
    CASE pattern = "one" -> "u1"
      [] pattern = "alternate" -> IF i % 2 = 1 THEN "u1" ELSE "u2"
      [] OTHER -> IF i = n THEN "u2" ELSE "u1"

Tables(n, k, pattern) ==
    [question |-> StoredQuestions,
     user_response |->
        [i \in 1..n |->
            [id |-> Inserted(i, k), user_id |-> UserOf(i, n, pattern),
             question_id |-> IF i % 2 = 1 THEN "1" ELSE "999",
             transcript |-> "transcript",
             created_at |-> CreatedAt(i, k)]],
     user_result |->
        [i \in 1..n |->
            [id |-> Inserted(i, k), user_id |-> UserOf(i, n, pattern),
             response_id |-> Inserted(i, k),
             overall_score |-> 60 + 10 * (i % 3),
             created_at |-> CreatedAt(i, k)]],
     user_progress |->
        [j \in 1..(IF n = 0 THEN 0 ELSE IF n = 1 \/ pattern = "one" THEN 1 ELSE 2) |->
            [id |-> j,
             user_id |-> IF j = 1 THEN "u1" ELSE "u2",
             average_score |-> 60 + j,
             created_at |-> 10 * j]]]

HistoryInputs ==
    {[fn |-> "history", user_id |-> x[1], t |-> Tables(x[2], x[3], x[4])] :
        x \in {y \in Users \X (0..MaxResults) \X (0..(MaxResults - 1))
                        \X {"one", "alternate", "last_other"} :
                    y[3] < y[2] \/ y[3] = 0}}

HistoryInit ==
    /\ arg \in HistoryInputs
    /\ ret = None
    /\ progress = None /\ session = None /\ pc = None /\ call = None
    /\ finished = None /\ failed = None /\ overlapped = None
    /\ req = None /\ db = None

\* GET /api/user-progress/<user_id>
History ==
    /\ ret = None
    /\ \E asc \in BOOLEAN : ret' = <<get_user_progress(arg.user_id, arg.t, asc)>>
    /\ UNCHANGED <<arg, recVars, appVars>>

HistoryNext == History

SpecHistory == HistoryInit /\ [][HistoryNext]_vars

\* the rows of the identity, in the order they were committed
RECURSIVE Committed(_, _)
Committed(table, user_id) ==
    IF table = <<>> THEN <<>>
    ELSE IF Head(table).user_id = user_id
         THEN <<Head(table)>> \o Committed(Tail(table), user_id)
         ELSE Committed(Tail(table), user_id)

Reverse(s) == [i \in 1..Len(s) |-> s[Len(s) + 1 - i]]

ReturnedIds == [i \in DOMAIN ret[1].recent_results |-> ret[1].recent_results[i].id]

====
